---- MODULE Spec2Model ----
(***************************************************************************)
(* channels.hpp: channels::channel<Type> (single slot) and                 *)
(* channels::buffered_channel<Type> (ring buffer), each a monitor built    *)
(* from one std::mutex and two std::condition_variable objects.            *)
(*                                                                         *)
(* A thread's position inside a member function is pc[t]:                  *)
(*   idle     not inside a member function                                 *)
(*   blocked  inside condition_variable::wait*, mutex released             *)
(*   woken    notified or spuriously woken, re-acquiring the mutex         *)
(*   expired  timed wait ran out, re-acquiring the mutex                   *)
(*   body     owns the mutex, wait predicate true: about to run            *)
(*            read_channel / write_channel / the locked part of close      *)
(*   notify   mutex released, notifications still to be issued             *)
(* Acquiring the mutex and evaluating the wait predicate under it is one   *)
(* step: no other thread can touch the object in between.                  *)
(***************************************************************************)
EXTENDS Integers, Sequences, FiniteSets, TLC

\* ---------------------------------------------------------------- bounds
NumThreads == 3
MaxCalls == 4
MaxSize == 2
MaxItems == 3

Threads == 1..NumThreads

\* std::size_t is unsigned: decrementing 0 wraps to its largest value, which
\* this number stands for.
SIZE_MAX == 1000000

VARIABLES
    channel_state,            \* channel::_state
    channel_value,            \* channel::_value
    buffered_values,          \* buffered_channel::_values (index 0 is cell 1)
    buffered_read_position,   \* buffered_channel::_read_position
    buffered_write_position,  \* buffered_channel::_write_position
    buffered_count,           \* buffered_channel::_count
    buffered_open,            \* buffered_channel::_open
    mutex,                    \* _mutex of each object: 0 or the owning thread
    pc,                       \* position of each thread
    call,                     \* the member function a thread is inside
    status,                   \* the result of the thread's current or last call
    nq,                       \* notifications a thread has still to issue
    out,                      \* the caller's `value` reference of its reads
    written,                  \* per object: values stored by writes, in order
    delivered,                \* per object: values handed to reads, in order
    ncalls,                   \* calls started so far
    target,                   \* the object the threads use
    items,                    \* producer/consumer runs: values the producer writes
    workers,                  \* producer/consumer runs: number of consumers
    size                      \* the argument of buffered_channel's constructor

chanVars == <<channel_state, channel_value>>
bufVars == <<buffered_values, buffered_read_position, buffered_write_position,
             buffered_count, buffered_open>>
logVars == <<written, delivered>>
runVars == <<target, items, workers, size>>
vars == <<channel_state, channel_value, buffered_values, buffered_read_position,
          buffered_write_position, buffered_count, buffered_open, mutex, pc,
          call, status, nq, out, written, delivered, ncalls, target, items, workers,
          size>>

Objects == {"channel", "buffered_channel"}
\* read_until / write_until are read_for / write_for with the expiry given as
\* a deadline instead of a duration (wait_until instead of wait_for, the same
\* predicate loop): "read_for" and "write_for" stand for both.
ReadFns == {"read", "read_for"}
WriteFns == {"write", "write_for"}
TimedFns == {"read_for", "write_for"}
Fns == ReadFns \cup WriteFns \cup {"close"}

NoCall == [obj |-> "none", fn |-> "none", arg |-> 0]

\* The condition variable a member function waits on.
cv_of(fn) == IF fn \in ReadFns THEN "_readable" ELSE "_writable"

\* Every wait holds while the channel is readable, the reads' too.
hold_state_readable(fn) == "readable"

\* channel::read passes channel_state::writable as hold_state, channel::write
\* passes channel_state::readable.
hold_state(fn) == IF fn \in ReadFns THEN "writable" ELSE "readable"

\* A wait that never blocks.
channel_stop_waiting_none(hold) == TRUE

\* The lambda of channel::wait / wait_for / wait_until.
channel_stop_waiting(hold) == channel_state # hold

\* A readability test that forgets the open flag.
is_readable_count == buffered_count > 0

\* A readability test that is always true.
is_readable_always == TRUE

is_readable == (~buffered_open) \/ (buffered_count > 0)

\* A writability test that lets one write too many through.
is_writable_over == (~buffered_open) \/ (buffered_count <= Len(buffered_values))

\* A writability test that forgets the open flag.
is_writable_capacity == buffered_count < Len(buffered_values)

is_writable == (~buffered_open) \/ (buffered_count < Len(buffered_values))

\* The predicate member function fn of object obj hands to
\* condition_variable::wait*.
stop_waiting(obj, fn) ==
    IF obj = "channel"
    THEN channel_stop_waiting(hold_state(fn))
    ELSE IF fn \in ReadFns THEN is_readable ELSE is_writable

\* Threads inside condition_variable::wait* of `cv` of object `obj`.
Waiters(obj, cv) ==
    {u \in Threads : pc[u] = "blocked" /\ call[u].obj = obj /\ cv_of(call[u].fn) = cv}

\* The member function returns (or throws): leave it, with the lock released.
Return(t, st) ==
    /\ pc' = [pc EXCEPT ![t] = "idle"]
    /\ call' = [call EXCEPT ![t] = NoCall]
    /\ status' = [status EXCEPT ![t] = st]
    /\ nq' = [nq EXCEPT ![t] = <<>>]
    /\ mutex' = [mutex EXCEPT ![call[t].obj] = 0]

\* lock.unlock() followed by notifications: the result is kept in `status`.
Unlock(t, st, notes) ==
    /\ pc' = [pc EXCEPT ![t] = "notify"]
    /\ status' = [status EXCEPT ![t] = st]
    /\ nq' = [nq EXCEPT ![t] = notes]
    /\ mutex' = [mutex EXCEPT ![call[t].obj] = 0]
    /\ UNCHANGED call

\* A notify_one that reaches no waiter.
notify_one_none(cv) == [cv |-> "none", all |-> FALSE]

notify_one(cv) == [cv |-> cv, all |-> FALSE]
\* A notify_all that wakes only one waiter.
notify_all_one(cv) == [cv |-> cv, all |-> FALSE]

notify_all(cv) == [cv |-> cv, all |-> TRUE]

\* ------------------------------------------------------------- monitor steps

\* A member function that goes ahead without waiting for the mutex.
lock_unguarded(t, obj, fn, arg) ==
    /\ pc[t] = "idle"
    /\ call' = [call EXCEPT ![t] = [obj |-> obj, fn |-> fn, arg |-> arg]]
    /\ status' = [status EXCEPT ![t] = "none"]
    /\ ncalls' = ncalls + 1
    /\ IF fn = "close" \/ stop_waiting(obj, fn)
       THEN /\ pc' = [pc EXCEPT ![t] = "body"]
            /\ mutex' = [mutex EXCEPT ![obj] = t]
       ELSE /\ pc' = [pc EXCEPT ![t] = "blocked"]
            /\ UNCHANGED mutex
    /\ UNCHANGED <<chanVars, bufVars, logVars, nq, out, runVars>>

\* std::unique_lock<std::mutex> lock(_mutex) at the head of every member
\* function, then (except in close) condition_variable::wait*(lock, pred):
\* with pred() true the function goes on owning the mutex, otherwise the
\* thread blocks and the mutex is released.
lock(t, obj, fn, arg) ==
    /\ pc[t] = "idle"
    /\ mutex[obj] = 0
    /\ call' = [call EXCEPT ![t] = [obj |-> obj, fn |-> fn, arg |-> arg]]
    /\ status' = [status EXCEPT ![t] = "none"]
    /\ ncalls' = ncalls + 1
    /\ IF fn = "close" \/ stop_waiting(obj, fn)
       THEN /\ pc' = [pc EXCEPT ![t] = "body"]
            /\ mutex' = [mutex EXCEPT ![obj] = t]
       ELSE /\ pc' = [pc EXCEPT ![t] = "blocked"]
            /\ UNCHANGED mutex
    /\ UNCHANGED <<chanVars, bufVars, logVars, nq, out, runVars>>

\* A wait may end without a notification.
spurious_wakeup(t) ==
    /\ pc[t] = "blocked"
    /\ pc' = [pc EXCEPT ![t] = "woken"]
    /\ UNCHANGED <<chanVars, bufVars, logVars, mutex, call, status, nq, out, ncalls, runVars>>

\* An expiry that also ends the untimed wait.
expire_any(t) ==
    /\ pc[t] = "blocked"
    /\ pc' = [pc EXCEPT ![t] = "expired"]
    /\ UNCHANGED <<chanVars, bufVars, logVars, mutex, call, status, nq, out, ncalls, runVars>>

\* The duration of wait_for / the deadline of wait_until passes.
expire(t) ==
    /\ pc[t] = "blocked"
    /\ call[t].fn \in TimedFns
    /\ pc' = [pc EXCEPT ![t] = "expired"]
    /\ UNCHANGED <<chanVars, bufVars, logVars, mutex, call, status, nq, out, ncalls, runVars>>

\* A woken wait that goes on without evaluating pred() again.
relock_unchecked(t) ==
    /\ pc[t] = "woken"
    /\ mutex[call[t].obj] = 0
    /\ pc' = [pc EXCEPT ![t] = "body"]
    /\ mutex' = [mutex EXCEPT ![call[t].obj] = t]
    /\ UNCHANGED <<chanVars, bufVars, logVars, call, status, nq, out, ncalls, runVars>>

\* A woken wait re-acquires the mutex and evaluates pred() again:
\* while (!pred()) wait(lock).
relock(t) ==
    /\ pc[t] = "woken"
    /\ mutex[call[t].obj] = 0
    /\ IF stop_waiting(call[t].obj, call[t].fn)
       THEN /\ pc' = [pc EXCEPT ![t] = "body"]
            /\ mutex' = [mutex EXCEPT ![call[t].obj] = t]
       ELSE /\ pc' = [pc EXCEPT ![t] = "blocked"]
            /\ UNCHANGED mutex
    /\ UNCHANGED <<chanVars, bufVars, logVars, call, status, nq, out, ncalls, runVars>>

\* A timed-out call that overwrites the caller's variable.
timeout_touch(t) ==
    /\ pc[t] = "expired"
    /\ mutex[call[t].obj] = 0
    /\ IF stop_waiting(call[t].obj, call[t].fn)
       THEN /\ pc' = [pc EXCEPT ![t] = "body"]
            /\ mutex' = [mutex EXCEPT ![call[t].obj] = t]
            /\ UNCHANGED <<call, status, nq, out>>
       ELSE /\ Return(t, "timeout")
            /\ out' = [out EXCEPT ![t] = -1]
    /\ UNCHANGED <<chanVars, bufVars, logVars, ncalls, runVars>>

\* A timed wait that goes on to the operation at expiry whatever pred() says.
timeout_late(t) ==
    /\ pc[t] = "expired"
    /\ mutex[call[t].obj] = 0
    /\ pc' = [pc EXCEPT ![t] = "body"]
    /\ mutex' = [mutex EXCEPT ![call[t].obj] = t]
    /\ UNCHANGED <<chanVars, bufVars, logVars, call, status, nq, out, ncalls, runVars>>

\* A timed wait that reports expiry without evaluating pred().
timeout_strict(t) ==
    /\ pc[t] = "expired"
    /\ mutex[call[t].obj] = 0
    /\ Return(t, "timeout")
    /\ UNCHANGED <<chanVars, bufVars, logVars, out, ncalls, runVars>>

\* wait_for / wait_until after expiry re-acquire the mutex and return pred();
\* on false the member function returns timeout and the unique_lock
\* destructor unlocks.
timeout(t) ==
    /\ pc[t] = "expired"
    /\ mutex[call[t].obj] = 0
    /\ IF stop_waiting(call[t].obj, call[t].fn)
       THEN /\ pc' = [pc EXCEPT ![t] = "body"]
            /\ mutex' = [mutex EXCEPT ![call[t].obj] = t]
            /\ UNCHANGED <<call, status, nq>>
       ELSE Return(t, "timeout")
    /\ UNCHANGED <<chanVars, bufVars, logVars, out, ncalls, runVars>>

\* notify_one / notify_all on a condition variable of the thread's object; the
\* member function returns after the last one.
notify(t) ==
    /\ pc[t] = "notify"
    /\ LET n == Head(nq[t])
           W == Waiters(call[t].obj, n.cv)
           last == Len(nq[t]) = 1
       IN \E S \in (IF n.all \/ W = {} THEN {W} ELSE {{u} : u \in W}) :
            /\ pc' = [u \in Threads |->
                        IF u \in S THEN "woken"
                        ELSE IF u = t /\ last THEN "idle" ELSE pc[u]]
            /\ nq' = [nq EXCEPT ![t] = Tail(@)]
            /\ call' = [call EXCEPT ![t] = IF last THEN NoCall ELSE @]
    /\ UNCHANGED <<chanVars, bufVars, logVars, mutex, status, out, ncalls, runVars>>

\* ------------------------------------------------------------------ channel

\* A read_channel that hands out the pending value of a closing channel and
\* leaves it there.
channel_read_channel_again(t) ==
    /\ pc[t] = "body"
    /\ call[t].obj = "channel"
    /\ call[t].fn \in ReadFns
    /\ CASE channel_state = "readable" ->
              /\ out' = [out EXCEPT ![t] = channel_value]
              /\ channel_state' = "writable"
              /\ delivered' = [delivered EXCEPT !["channel"] = Append(@, channel_value)]
              /\ Unlock(t, "success", <<notify_one("_writable")>>)
         [] channel_state = "closing" ->
              /\ out' = [out EXCEPT ![t] = channel_value]
              /\ channel_state' = "closing"
              /\ delivered' = [delivered EXCEPT !["channel"] = Append(@, channel_value)]
              /\ Unlock(t, "success", <<notify_all("_readable")>>)
         [] channel_state = "closed" ->
              /\ UNCHANGED <<out, channel_state, delivered>>
              /\ Return(t, "closed")
         [] channel_state = "writable" ->
              /\ UNCHANGED <<out, channel_state, delivered>>
              /\ Return(t, "illegal_write")
    /\ UNCHANGED <<channel_value, bufVars, written, ncalls, runVars>>

\* A read_channel that treats closing like readable: the channel opens again.
channel_read_channel_reopen(t) ==
    /\ pc[t] = "body"
    /\ call[t].obj = "channel"
    /\ call[t].fn \in ReadFns
    /\ CASE channel_state \in {"readable", "closing"} ->
              /\ out' = [out EXCEPT ![t] = channel_value]
              /\ channel_state' = "writable"
              /\ delivered' = [delivered EXCEPT !["channel"] = Append(@, channel_value)]
              /\ Unlock(t, "success", <<notify_one("_writable")>>)
         [] channel_state = "closed" ->
              /\ UNCHANGED <<out, channel_state, delivered>>
              /\ Return(t, "closed")
         [] channel_state = "writable" ->
              /\ UNCHANGED <<out, channel_state, delivered>>
              /\ Return(t, "illegal_write")
    /\ UNCHANGED <<channel_value, bufVars, written, ncalls, runVars>>

channel_read_channel(t) ==
    /\ pc[t] = "body"
    /\ call[t].obj = "channel"
    /\ call[t].fn \in ReadFns
    /\ CASE channel_state = "readable" ->
              /\ out' = [out EXCEPT ![t] = channel_value]
              /\ channel_state' = "writable"
              /\ delivered' = [delivered EXCEPT !["channel"] = Append(@, channel_value)]
              /\ Unlock(t, "success", <<notify_one("_writable")>>)
         [] channel_state = "closing" ->
              /\ out' = [out EXCEPT ![t] = channel_value]
              /\ channel_state' = "closed"
              /\ delivered' = [delivered EXCEPT !["channel"] = Append(@, channel_value)]
              /\ Unlock(t, "success", <<notify_all("_readable")>>)
         [] channel_state = "closed" ->
              /\ UNCHANGED <<out, channel_state, delivered>>
              /\ Return(t, "closed")
         [] channel_state = "writable" ->
              /\ UNCHANGED <<out, channel_state, delivered>>
              /\ Return(t, "illegal_write")
    /\ UNCHANGED <<channel_value, bufVars, written, ncalls, runVars>>

\* A write_channel that leaves the channel writable.
channel_write_channel_open(t) ==
    /\ pc[t] = "body"
    /\ call[t].obj = "channel"
    /\ call[t].fn \in WriteFns
    /\ IF channel_state = "writable"
       THEN /\ channel_value' = call[t].arg
            /\ channel_state' = "writable"
            /\ written' = [written EXCEPT !["channel"] = Append(@, call[t].arg)]
            /\ Unlock(t, "success", <<notify_one("_readable")>>)
       ELSE /\ UNCHANGED <<channel_value, channel_state, written>>
            /\ Return(t, "illegal_write")
    /\ UNCHANGED <<bufVars, delivered, out, ncalls, runVars>>

\* A write_channel that takes the slot freed by the last read of a closed
\* channel.
channel_write_channel_late(t) ==
    /\ pc[t] = "body"
    /\ call[t].obj = "channel"
    /\ call[t].fn \in WriteFns
    /\ IF channel_state \in {"writable", "closed"}
       THEN /\ channel_value' = call[t].arg
            /\ channel_state' = "readable"
            /\ written' = [written EXCEPT !["channel"] = Append(@, call[t].arg)]
            /\ Unlock(t, "success", <<notify_one("_readable")>>)
       ELSE /\ UNCHANGED <<channel_value, channel_state, written>>
            /\ Return(t, "illegal_write")
    /\ UNCHANGED <<bufVars, delivered, out, ncalls, runVars>>

channel_write_channel(t) ==
    /\ pc[t] = "body"
    /\ call[t].obj = "channel"
    /\ call[t].fn \in WriteFns
    /\ IF channel_state = "writable"
       THEN /\ channel_value' = call[t].arg
            /\ channel_state' = "readable"
            /\ written' = [written EXCEPT !["channel"] = Append(@, call[t].arg)]
            /\ Unlock(t, "success", <<notify_one("_readable")>>)
       ELSE /\ UNCHANGED <<channel_value, channel_state, written>>
            /\ Return(t, "illegal_write")
    /\ UNCHANGED <<bufVars, delivered, out, ncalls, runVars>>

\* A close that forgets the pending value.
channel_close_drop(t) ==
    /\ pc[t] = "body"
    /\ call[t].obj = "channel"
    /\ call[t].fn = "close"
    /\ channel_state' = "closed"
    /\ Unlock(t, "void", <<notify_all("_writable"), notify_all("_readable")>>)
    /\ UNCHANGED <<channel_value, bufVars, logVars, out, ncalls, runVars>>

\* A close that finishes the closing of a channel closed before.
channel_close_twice(t) ==
    /\ pc[t] = "body"
    /\ call[t].obj = "channel"
    /\ call[t].fn = "close"
    /\ channel_state' = (IF channel_state = "readable" THEN "closing" ELSE "closed")
    /\ Unlock(t, "void", <<notify_all("_writable"), notify_all("_readable")>>)
    /\ UNCHANGED <<channel_value, bufVars, logVars, out, ncalls, runVars>>

channel_close(t) ==
    /\ pc[t] = "body"
    /\ call[t].obj = "channel"
    /\ call[t].fn = "close"
    /\ channel_state' = (IF channel_state = "readable" THEN "closing"
                         ELSE IF channel_state = "writable" THEN "closed"
                         ELSE channel_state)
    /\ Unlock(t, "void", <<notify_all("_writable"), notify_all("_readable")>>)
    /\ UNCHANGED <<channel_value, bufVars, logVars, out, ncalls, runVars>>

\* --------------------------------------------------------- buffered_channel

\* _values[i] of the vector, whose cells the model numbers from 1.
cell(i) == i + 1

\* A cursor that is never moved.
advance_lost(pos) == pos

\* A cursor that stays on the last cell instead of wrapping.
advance_unwrapped(pos) == IF pos + 1 < Len(buffered_values) THEN pos + 1 ELSE pos

\* (_read_position + 1) % _values.size(), and the same for _write_position
advance(pos) == (pos + 1) % Len(buffered_values)

\* _count-- on std::size_t
decrement(n) == IF n = 0 THEN SIZE_MAX ELSE n - 1

\* A closed test that ignores what is still pending.
closed_and_empty_early == ~buffered_open

\* !_open && (_count == 0)
closed_and_empty == (~buffered_open) /\ (buffered_count = 0)

buffered_read_channel(t) ==
    /\ pc[t] = "body"
    /\ call[t].obj = "buffered_channel"
    /\ call[t].fn \in ReadFns
    /\ IF closed_and_empty
       THEN /\ UNCHANGED <<out, buffered_read_position, buffered_count, delivered>>
            /\ Unlock(t, "closed", <<notify_all("_readable")>>)
       ELSE /\ out' = [out EXCEPT ![t] = buffered_values[cell(buffered_read_position)]]
            /\ buffered_read_position' = advance(buffered_read_position)
            /\ buffered_count' = decrement(buffered_count)
            /\ delivered' = [delivered EXCEPT !["buffered_channel"] =
                               Append(@, buffered_values[cell(buffered_read_position)])]
            /\ Unlock(t, "success", <<notify_one("_writable")>>)
    /\ UNCHANGED <<chanVars, buffered_values, buffered_write_position, buffered_open,
                   written, ncalls, runVars>>

\* A write_channel that never looks at the open flag.
buffered_write_channel_closed(t) ==
    /\ pc[t] = "body"
    /\ call[t].obj = "buffered_channel"
    /\ call[t].fn \in WriteFns
    /\ buffered_values' = [buffered_values EXCEPT
                             ![cell(buffered_write_position)] = call[t].arg]
    /\ buffered_count' = buffered_count + 1
    /\ buffered_write_position' = advance(buffered_write_position)
    /\ written' = [written EXCEPT !["buffered_channel"] = Append(@, call[t].arg)]
    /\ Unlock(t, "success", <<notify_one("_readable")>>)
    /\ UNCHANGED <<chanVars, buffered_read_position, buffered_open, delivered, out,
                   ncalls, runVars>>

\* A write_channel that stores the value before it looks at the open flag.
buffered_write_channel_partial(t) ==
    /\ pc[t] = "body"
    /\ call[t].obj = "buffered_channel"
    /\ call[t].fn \in WriteFns
    /\ buffered_values' = [buffered_values EXCEPT
                             ![cell(buffered_write_position)] = call[t].arg]
    /\ IF buffered_open
       THEN /\ buffered_count' = buffered_count + 1
            /\ buffered_write_position' = advance(buffered_write_position)
            /\ written' = [written EXCEPT !["buffered_channel"] = Append(@, call[t].arg)]
            /\ Unlock(t, "success", <<notify_one("_readable")>>)
       ELSE /\ UNCHANGED <<buffered_count, buffered_write_position, written>>
            /\ Return(t, "illegal_write")
    /\ UNCHANGED <<chanVars, buffered_read_position, buffered_open, delivered, out,
                   ncalls, runVars>>

buffered_write_channel(t) ==
    /\ pc[t] = "body"
    /\ call[t].obj = "buffered_channel"
    /\ call[t].fn \in WriteFns
    /\ IF buffered_open
       THEN /\ buffered_values' = [buffered_values EXCEPT
                                     ![cell(buffered_write_position)] = call[t].arg]
            /\ buffered_count' = buffered_count + 1
            /\ buffered_write_position' = advance(buffered_write_position)
            /\ written' = [written EXCEPT !["buffered_channel"] = Append(@, call[t].arg)]
            /\ Unlock(t, "success", <<notify_one("_readable")>>)
       ELSE /\ UNCHANGED <<buffered_values, buffered_count, buffered_write_position, written>>
            /\ Return(t, "illegal_write")
    /\ UNCHANGED <<chanVars, buffered_read_position, buffered_open, delivered, out,
                   ncalls, runVars>>

\* A close that notifies nobody.
buffered_close_silent(t) ==
    /\ pc[t] = "body"
    /\ call[t].obj = "buffered_channel"
    /\ call[t].fn = "close"
    /\ buffered_open' = FALSE
    /\ Return(t, "void")
    /\ UNCHANGED <<chanVars, buffered_values, buffered_read_position,
                   buffered_write_position, buffered_count, logVars, out, ncalls, runVars>>

\* A close that empties the ring.
buffered_close_clear(t) ==
    /\ pc[t] = "body"
    /\ call[t].obj = "buffered_channel"
    /\ call[t].fn = "close"
    /\ buffered_open' = FALSE
    /\ buffered_count' = 0
    /\ buffered_write_position' = buffered_read_position
    /\ Unlock(t, "void", <<notify_all("_writable"), notify_all("_readable")>>)
    /\ UNCHANGED <<chanVars, buffered_values, buffered_read_position, logVars, out,
                   ncalls, runVars>>

buffered_close(t) ==
    /\ pc[t] = "body"
    /\ call[t].obj = "buffered_channel"
    /\ call[t].fn = "close"
    /\ buffered_open' = FALSE
    /\ Unlock(t, "void", <<notify_all("_writable"), notify_all("_readable")>>)
    /\ UNCHANGED <<chanVars, buffered_values, buffered_read_position,
                   buffered_write_position, buffered_count, logVars, out, ncalls, runVars>>

\* ------------------------------------------------------------ construction

\* channel::channel() and buffered_channel::buffered_channel(size), size >= 1;
\* every thread outside the member functions.
Constructed(n) ==
    /\ channel_state = "writable"
    /\ channel_value = 0
    /\ buffered_values = [i \in 1..n |-> 0]
    /\ buffered_read_position = 0
    /\ buffered_write_position = 0
    /\ buffered_count = 0
    /\ buffered_open = TRUE
    /\ mutex = [o \in Objects |-> 0]
    /\ pc = [t \in Threads |-> "idle"]
    /\ call = [t \in Threads |-> NoCall]
    /\ status = [t \in Threads |-> "none"]
    /\ nq = [t \in Threads |-> <<>>]
    /\ out = [t \in Threads |-> 0]
    /\ written = [o \in Objects |-> <<>>]
    /\ delivered = [o \in Objects |-> <<>>]
    /\ ncalls = 0

\* ------------------------------------------------- threads calling freely

\* Any thread calls any member function of the object under test; the k-th
\* call that is a write passes the value k, so that a value names its write.
Call(t) ==
    /\ ncalls < MaxCalls
    /\ \E fn \in Fns : lock(t, target, fn, IF fn \in WriteFns THEN ncalls + 1 ELSE 0)

Init ==
    /\ target \in Objects
    /\ items = 0
    /\ workers = 0
    /\ size \in 1..MaxSize
    /\ Constructed(size)

Step(t) ==
    \/ spurious_wakeup(t)
    \/ expire(t)
    \/ relock(t)
    \/ timeout(t)
    \/ notify(t)
    \/ channel_read_channel(t)
    \/ channel_write_channel(t)
    \/ channel_close(t)
    \/ buffered_read_channel(t)
    \/ buffered_write_channel(t)
    \/ buffered_close(t)

Next == \E t \in Threads : Call(t) \/ Step(t)

Spec == Init /\ [][Next]_vars

\* A thread inside a member function keeps running: re-acquiring the mutex
\* after a wake-up or an expiry, read_channel, write_channel, close and the
\* notifications are eventually taken.  Nothing is assumed about new calls,
\* spurious wake-ups or timed waits expiring.
Running(t) ==
    \/ relock(t)
    \/ timeout(t)
    \/ notify(t)
    \/ channel_read_channel(t)
    \/ channel_write_channel(t)
    \/ channel_close(t)
    \/ buffered_read_channel(t)
    \/ buffered_write_channel(t)
    \/ buffered_close(t)

FairSpec == Spec /\ \A t \in Threads : WF_vars(Running(t))

\* ---------------------------------------------- one producer, its consumers

\* The use the documentation of close() recommends and the tests and examples
\* make: one thread writes the values 1..items in order and then closes; each
\* consumer reads until a read does not return success.
Producer == 1
Consumers == 2..(1 + workers)

producer(t) ==
    /\ t = Producer
    /\ status[t] \in {"none", "success"}
    /\ IF Len(written[target]) < items
       THEN lock(t, target, "write", Len(written[target]) + 1)
       ELSE lock(t, target, "close", 0)

consumer(t) ==
    /\ t \in Consumers
    /\ status[t] \in {"none", "success"}
    /\ lock(t, target, "read", 0)

InitPC ==
    /\ target \in Objects
    /\ items \in 0..MaxItems
    /\ workers \in 1..(NumThreads - 1)
    /\ size \in 1..MaxSize
    /\ Constructed(size)

StepPC(t) ==
    \/ spurious_wakeup(t)
    \/ relock(t)
    \/ notify(t)
    \/ channel_read_channel(t)
    \/ channel_write_channel(t)
    \/ channel_close(t)
    \/ buffered_read_channel(t)
    \/ buffered_write_channel(t)
    \/ buffered_close(t)

NextPC == \E t \in Threads : producer(t) \/ consumer(t) \/ StepPC(t)

SpecPC == InitPC /\ [][NextPC]_vars

\* Every thread keeps running: a step it can take (entering a member function
\* when the mutex is free, re-acquiring it after a wake-up, read_channel,
\* write_channel, close, a notification) is eventually taken.  Nothing is
\* assumed about spurious wake-ups.
Progress(t) ==
    \/ producer(t)
    \/ consumer(t)
    \/ relock(t)
    \/ notify(t)
    \/ channel_read_channel(t)
    \/ channel_write_channel(t)
    \/ channel_close(t)
    \/ buffered_read_channel(t)
    \/ buffered_write_channel(t)
    \/ buffered_close(t)

FairPC == SpecPC /\ \A t \in Threads : WF_vars(Progress(t))

\* --------------------------------------------- construction, then the same

\* A constructor that accepts capacity 0.
buffered_channel_ctor_any(t) ==
    /\ t = Producer
    /\ target = "none"
    /\ status[t] = "none"
    /\ target' = "buffered_channel"
    /\ buffered_values' = [i \in 1..size |-> 0]
    /\ buffered_read_position' = 0
    /\ buffered_write_position' = 0
    /\ buffered_count' = 0
    /\ buffered_open' = TRUE
    /\ UNCHANGED <<chanVars, mutex, pc, call, status, nq, out, logVars, ncalls,
                   items, workers, size>>

\* buffered_channel::buffered_channel(size): the member initialisers, then
\* the exception for size 0, which ends the construction without an object
\* (the destructor does not run), then _values.resize(size).
buffered_channel_ctor(t) ==
    /\ t = Producer
    /\ target = "none"
    /\ status[t] = "none"
    /\ IF size = 0
       THEN /\ status' = [status EXCEPT ![t] = "invalid_size"]
            /\ UNCHANGED <<target, bufVars>>
       ELSE /\ target' = "buffered_channel"
            /\ buffered_values' = [i \in 1..size |-> 0]
            /\ buffered_read_position' = 0
            /\ buffered_write_position' = 0
            /\ buffered_count' = 0
            /\ buffered_open' = TRUE
            /\ UNCHANGED status
    /\ UNCHANGED <<chanVars, mutex, pc, call, nq, out, logVars, ncalls,
                   items, workers, size>>

\* channel::channel()
channel_ctor(t) ==
    /\ t = Producer
    /\ target = "none"
    /\ status[t] = "none"
    /\ target' = "channel"
    /\ channel_state' = "writable"
    /\ UNCHANGED <<channel_value, bufVars, mutex, pc, call, status, nq, out, logVars,
                   ncalls, items, workers, size>>

\* No object yet: the thread that will write is about to construct one, the
\* buffered channel with capacity `size`.
InitNew ==
    /\ target = "none"
    /\ items \in 0..MaxItems
    /\ workers \in 1..(NumThreads - 1)
    /\ size \in 0..MaxSize
    /\ channel_state = "none"
    /\ channel_value = 0
    /\ buffered_values = <<>>
    /\ buffered_read_position = 0
    /\ buffered_write_position = 0
    /\ buffered_count = 0
    /\ buffered_open = FALSE
    /\ mutex = [o \in Objects |-> 0]
    /\ pc = [t \in Threads |-> "idle"]
    /\ call = [t \in Threads |-> NoCall]
    /\ status = [t \in Threads |-> "none"]
    /\ nq = [t \in Threads |-> <<>>]
    /\ out = [t \in Threads |-> 0]
    /\ written = [o \in Objects |-> <<>>]
    /\ delivered = [o \in Objects |-> <<>>]
    /\ ncalls = 0

\* Member functions can be called on an object that exists.
operate(t) ==
    /\ target \in Objects
    /\ (producer(t) \/ consumer(t) \/ StepPC(t))

NextNew == \E t \in Threads : buffered_channel_ctor(t) \/ channel_ctor(t) \/ operate(t)

SpecNew == InitNew /\ [][NextNew]_vars

\* ------------------------------------------------- the two-stage pipeline

\* The echo server of the integration test: a single-slot channel `_readable`
\* and a buffered channel `_response_queue`, and one thread for each of its
\* three functions.
Listener == 1
Reader == 2
Writer == 3

\* listener_function: _readable.write(client) for each accepted client, the
\* values 1..items here, then _readable.close().
listener_function(t) ==
    /\ t = Listener
    /\ status[t] \in {"none", "success"}
    /\ IF Len(written["channel"]) < items
       THEN lock(t, "channel", "write", Len(written["channel"]) + 1)
       ELSE lock(t, "channel", "close", 0)

\* reader_function: while _readable.read(readable) is success, write the
\* value read to _response_queue; then _response_queue.close().  The value in
\* `readable` is still to be forwarded while more has been read than written.
reader_function(t) ==
    /\ t = Reader
    /\ IF Len(delivered["channel"]) > Len(written["buffered_channel"])
       THEN /\ status[t] = "success"
            /\ lock(t, "buffered_channel", "write", out[t])
       ELSE IF status[t] = "closed"
            THEN lock(t, "buffered_channel", "close", 0)
            ELSE /\ status[t] \in {"none", "success"}
                 /\ lock(t, "channel", "read", 0)

\* writer_function: while _response_queue.read(response) is success, send it.
writer_function(t) ==
    /\ t = Writer
    /\ status[t] \in {"none", "success"}
    /\ lock(t, "buffered_channel", "read", 0)

\* The server as constructed, _response_queue with capacity `size` (10 in the
\* test), before its threads start.
InitPipe ==
    /\ target = "pipeline"
    /\ items \in 0..MaxItems
    /\ workers = 0
    /\ size \in 1..MaxSize
    /\ Constructed(size)

NextPipe ==
    \E t \in Threads :
        listener_function(t) \/ reader_function(t) \/ writer_function(t) \/ StepPC(t)

SpecPipe == InitPipe /\ [][NextPipe]_vars

\* Each of the three threads keeps running, as in FairPC.
Flows(t) ==
    \/ listener_function(t)
    \/ reader_function(t)
    \/ writer_function(t)
    \/ relock(t)
    \/ notify(t)
    \/ channel_read_channel(t)
    \/ channel_write_channel(t)
    \/ channel_close(t)
    \/ buffered_read_channel(t)
    \/ buffered_write_channel(t)
    \/ buffered_close(t)

FairPipe == SpecPipe /\ \A t \in Threads : WF_vars(Flows(t))

\* ------------------------------------------------------------------ claims

\* The sequence 1, 2, ..., n: what the producer writes, in order.
Upto(n) == [i \in 1..n |-> i]

Last(q) == q[Len(q)]

\* C1: single-slot channel, one writer issuing write(1)..write(N) and one
\* reader: the i-th read returns success with the value of the i-th write;
\* the reads return no value out of write order, none twice and none that was
\* not written, and the reader sees closed only after all N values.
C1_Alternation ==
    (target = "channel" /\ workers = 1) =>
        /\ written["channel"] = Upto(Len(written["channel"]))
        /\ delivered["channel"] = Upto(Len(delivered["channel"]))
        /\ Len(delivered["channel"]) <= Len(written["channel"])
        /\ status[2] \in {"none", "success", "closed"}
        /\ (pc[2] = "idle" /\ status[2] = "success") =>
               (delivered["channel"] # <<>> /\ out[2] = Last(delivered["channel"]))
        /\ (status[2] = "closed") => (Len(delivered["channel"]) = items)

C1_Witness ==
    /\ target = "channel"
    /\ workers = 1
    /\ items = MaxItems
    /\ pc[2] = "idle"
    /\ status[2] = "success"
    /\ out[2] = MaxItems
    /\ delivered["channel"] = Upto(MaxItems)

\* Thread t runs read_channel of object obj in this step.
ReadsNow(t, obj) ==
    /\ pc[t] = "body"
    /\ call[t].obj = obj
    /\ call[t].fn \in ReadFns
    /\ pc'[t] # "body"

\* C2: single-slot channel closed with a written value still unread (state
\* closing): the slot holds the last value written and it is the only one not
\* yet delivered; the next read returns success with it and closes the
\* channel; in state closed every written value has been delivered exactly
\* once, every read returns closed and delivers nothing, and the state stays
\* closed.
C2_CloseAfterWrite ==
    /\ [](channel_state = "closing" =>
            /\ written["channel"] # <<>>
            /\ channel_value = Last(written["channel"])
            /\ delivered["channel"] =
                   SubSeq(written["channel"], 1, Len(written["channel"]) - 1))
    /\ [](channel_state = "closed" => delivered["channel"] = written["channel"])
    /\ [][\A t \in Threads : ReadsNow(t, "channel") =>
            /\ (channel_state = "closing") =>
                   /\ status'[t] = "success"
                   /\ out'[t] = Last(written["channel"])
                   /\ channel_state' = "closed"
            /\ (channel_state = "closed") =>
                   /\ status'[t] = "closed"
                   /\ pc'[t] = "idle"
                   /\ UNCHANGED <<out, delivered, chanVars>>]_vars
    /\ [][channel_state = "closed" => UNCHANGED <<channel_state, delivered, written>>]_vars

\* One thread has just read the pending value from the closing channel (only
\* that read issues notify_all on _readable) and another has since got closed.
C2_Witness ==
    /\ channel_state = "closed"
    /\ \E t, u \in Threads :
          /\ pc[t] = "notify"
          /\ call[t].obj = "channel"
          /\ call[t].fn \in ReadFns
          /\ nq[t] = <<notify_all("_readable")>>
          /\ status[t] = "success"
          /\ out[t] = Last(written["channel"])
          /\ pc[u] = "idle"
          /\ status[u] = "closed"

\* close() has completed on the object.
Closed(obj) ==
    IF obj = "channel" THEN channel_state \in {"closing", "closed"} ELSE ~buffered_open

\* Thread t runs write_channel of object obj in this step.
WritesNow(t, obj) ==
    /\ pc[t] = "body"
    /\ call[t].obj = obj
    /\ call[t].fn \in WriteFns
    /\ pc'[t] # "body"

\* Thread t enters member function fn in this step.
Enters(t, fns) == pc[t] = "idle" /\ pc'[t] # "idle" /\ call'[t].fn \in fns

\* C3: once close() has completed (single-slot: state closing or closed;
\* buffered: open false, whatever the count) the object stays closed; a write
\* or timed write invoked then does not block, so it cannot time out, and its
\* write_channel raises illegal write, storing nothing; a write still waiting
\* on a closed object does not return timeout.
C3_IllegalWrite ==
    [][\A t \in Threads : \A obj \in Objects :
        /\ (pc[t] = "body" /\ call[t].obj = obj /\ call[t].fn = "close" /\ pc'[t] # "body")
              => Closed(obj)'
        /\ Closed(obj) => Closed(obj)'
        /\ (Closed(obj) /\ Enters(t, WriteFns) /\ call'[t].obj = obj) => pc'[t] = "body"
        /\ (Closed(obj) /\ WritesNow(t, obj)) =>
              /\ pc'[t] = "idle"
              /\ status'[t] = "illegal_write"
              /\ UNCHANGED <<chanVars, bufVars, written>>
        /\ (Closed(obj) /\ call[t].obj = obj /\ call[t].fn \in WriteFns
               /\ pc[t] \in {"blocked", "woken", "expired"})
              => (pc'[t] # "idle" /\ status'[t] = "none")]_vars

\* A write on a closed buffered channel that holds a pending element and has
\* free capacity has raised illegal write.
C3_Witness ==
    /\ target = "buffered_channel"
    /\ ~buffered_open
    /\ buffered_count < Len(buffered_values)
    /\ \E t \in Threads :
          /\ pc[t] = "idle"
          /\ status[t] = "illegal_write"
          /\ written["buffered_channel"] # <<>>

\* The elements pending in the ring, oldest first.
Pending ==
    [i \in 1..buffered_count |->
        buffered_values[cell((buffered_read_position + i - 1) % Len(buffered_values))]]

\* C4: buffered channel of any capacity: the values successful reads have
\* returned are, in the order of the reads, the first values written, in the
\* order the writes completed, and the ring holds exactly the values written
\* after them, oldest at the read cursor, also once the cursors have wrapped.
C4_Fifo ==
    (target = "buffered_channel") =>
        /\ Len(delivered["buffered_channel"]) + buffered_count
              = Len(written["buffered_channel"])
        /\ delivered["buffered_channel"] \o Pending = written["buffered_channel"]

\* Capacity 2, three values written and read: both cursors have wrapped.
C4_Witness ==
    /\ target = "buffered_channel"
    /\ Len(buffered_values) = 2
    /\ delivered["buffered_channel"] = <<1, 2, 3>>
    /\ buffered_read_position = 1
    /\ buffered_write_position = 1
    /\ \E t \in Consumers : pc[t] = "idle" /\ status[t] = "success" /\ out[t] = 3

\* Thread t is inside a write of the buffered channel that has not yet run
\* write_channel: blocked on _writable or re-acquiring the mutex.
WriteWaits(t) ==
    /\ call[t].obj = "buffered_channel"
    /\ call[t].fn \in WriteFns
    /\ pc[t] \in {"blocked", "woken", "expired"}

\* C5: buffered channel of capacity K. While it is open with count < K a
\* write does not block, so with no read since construction no writer waits
\* before K writes have completed; while it is open with count = K an entering
\* or woken write blocks, no step stores a value or raises count, and count
\* falls only by a read; a write completes only from count < K.
C5_CapacityBound ==
    /\ [](\A t \in Threads :
            (WriteWaits(t) /\ buffered_open /\ delivered["buffered_channel"] = <<>>)
               => buffered_count = Len(buffered_values))
    /\ [][\A t \in Threads :
            /\ (Enters(t, WriteFns) /\ call'[t].obj = "buffered_channel" /\ buffered_open) =>
                  IF buffered_count < Len(buffered_values)
                  THEN pc'[t] = "body"
                  ELSE pc'[t] = "blocked"
            /\ (WriteWaits(t) /\ pc[t] = "woken" /\ pc'[t] # "woken"
                  /\ buffered_open /\ buffered_count = Len(buffered_values))
                  => pc'[t] = "blocked"
            /\ (WritesNow(t, "buffered_channel") /\ status'[t] = "success") =>
                  /\ buffered_count < Len(buffered_values)
                  /\ buffered_count' = buffered_count + 1]_vars
    /\ [][(buffered_open /\ buffered_count = Len(buffered_values)) =>
            /\ UNCHANGED <<buffered_values, written>>
            /\ buffered_count' <= buffered_count]_vars
    /\ [][buffered_count' < buffered_count =>
            \E t \in Threads : ReadsNow(t, "buffered_channel")]_vars

\* Capacity 2: the first two writes have completed with no read, the third
\* waits on the full, open channel.
C5_Witness ==
    /\ target = "buffered_channel"
    /\ buffered_open
    /\ Len(buffered_values) = 2
    /\ buffered_count = 2
    /\ written["buffered_channel"] = <<1, 2>>
    /\ delivered["buffered_channel"] = <<>>
    /\ pc[Producer] = "blocked"
    /\ call[Producer] = [obj |-> "buffered_channel", fn |-> "write", arg |-> 3]

\* What the producer and its one consumer may have seen so far.
C6_Safe ==
    /\ status[Producer] \in {"none", "success", "void"}
    /\ status[2] \in {"none", "success", "closed"}
    /\ delivered["buffered_channel"] = Upto(Len(delivered["buffered_channel"]))
    /\ Len(delivered["buffered_channel"]) <= items
    /\ (pc[2] = "idle" /\ status[2] = "success") =>
           out[2] = Len(delivered["buffered_channel"])
    /\ (status[2] = "closed") => delivered["buffered_channel"] = Upto(items)

\* Both threads have finished and every value has arrived.
C6_Finished ==
    /\ pc[Producer] = "idle"
    /\ status[Producer] = "void"
    /\ pc[2] = "idle"
    /\ status[2] = "closed"
    /\ delivered["buffered_channel"] = Upto(items)

\* C6: buffered channel, one producer writing 1..M and then closing, one
\* consumer reading until closed: no call of the producer raises, the consumer
\* is handed 1, 2, ... in order and sees closed only after all M values, and
\* both threads finish.
C6_ProducerConsumer ==
    (target = "buffered_channel" /\ workers = 1) => ([]C6_Safe /\ <>C6_Finished)

C6_Witness ==
    /\ target = "buffered_channel"
    /\ workers = 1
    /\ items = MaxItems
    /\ Len(buffered_values) = 2
    /\ C6_Finished

\* C7: any number of threads reading one object, spurious wake-ups included:
\* the values handed out by successful reads are the first values written,
\* each once and none skipped; every value a reader holds was handed out, and
\* no two readers hold the same value (every write passes a different value).
C7_ExactlyOneReader ==
    LET d == delivered[target]
        w == written[target]
    IN /\ Len(d) <= Len(w)
       /\ \A i \in 1..Len(d) : d[i] = w[i]
       /\ \A i, j \in 1..Len(w) : (i # j) => (w[i] # w[j])
       /\ \A t \in Threads : (out[t] # 0) => (\E i \in 1..Len(d) : d[i] = out[t])
       /\ \A t, u \in Threads : (t # u /\ out[t] # 0) => (out[t] # out[u])

\* Two readers race for one value of the single-slot channel: t was woken
\* by the write's notify_one, but u has taken the value before t re-acquired
\* the mutex; t holds nothing and has yet to evaluate its predicate again.
C7_Witness ==
    /\ target = "channel"
    /\ channel_state = "writable"
    /\ Len(written["channel"]) = 1
    /\ delivered["channel"] = written["channel"]
    /\ \E t, u \in Threads :
          /\ t # u
          /\ pc[t] = "woken"
          /\ call[t].fn \in ReadFns
          /\ out[t] = 0
          /\ pc[u] = "idle"
          /\ status[u] = "success"
          /\ out[u] = written["channel"][1]

\* Some thread is inside close().
CloseCalled == \E c \in Threads : pc[c] # "idle" /\ call[c].fn = "close"

\* C8: both objects. Once close() has been called, every thread inside a
\* read or write, blocked or not, and every call started later returns; a
\* call that leaves its wait on the closed object returns closed or a value
\* (read) or raises illegal write (write), never timeout; and once a close()
\* has returned no thread is left blocked on either condition variable.
C8_CloseWakesAll ==
    /\ \A t \in Threads :
          ((CloseCalled \/ Closed(target)) /\ pc[t] # "idle") ~> (pc[t] = "idle")
    /\ []((Closed(target) /\ \E c \in Threads : pc[c] = "idle" /\ status[c] = "void")
            => \A t \in Threads : pc[t] # "blocked")
    /\ [][\A t \in Threads :
            (Closed(target) /\ pc[t] \in {"woken", "expired", "body"} /\ pc'[t] # pc[t]) =>
               IF pc[t] # "body" THEN pc'[t] = "body"
               ELSE IF call[t].fn \in ReadFns THEN status'[t] \in {"success", "closed"}
               ELSE IF call[t].fn \in WriteFns THEN status'[t] = "illegal_write"
               ELSE status'[t] = "void"]_vars

\* close() has returned on the single-slot channel while two readers that
\* were blocked are re-acquiring the mutex.
C8_Witness ==
    /\ target = "channel"
    /\ channel_state = "closed"
    /\ \E c, t, u \in Threads :
          /\ t # u
          /\ pc[c] = "idle" /\ status[c] = "void"
          /\ pc[t] = "woken" /\ call[t].fn = "read"
          /\ pc[u] = "woken" /\ call[u].fn = "read"

\* The object is closed and holds nothing.
ClosedEmpty(obj) ==
    IF obj = "channel" THEN channel_state = "closed"
    ELSE (~buffered_open) /\ (buffered_count = 0)

\* C9: a read or timed read on an object that is closed with nothing pending
\* does not block, returns closed, and leaves the state, the slot, the ring,
\* count, both cursors and the caller's output variable as they were; the
\* object stays closed and empty.
C9_ReadClosedEmpty ==
    [][\A t \in Threads : \A obj \in Objects :
        /\ ClosedEmpty(obj) => (ClosedEmpty(obj)' /\ UNCHANGED <<chanVars, bufVars>>)
        /\ (ClosedEmpty(obj) /\ Enters(t, ReadFns) /\ call'[t].obj = obj) => pc'[t] = "body"
        /\ (ClosedEmpty(obj) /\ ReadsNow(t, obj)) =>
              /\ status'[t] = "closed"
              /\ pc'[t] \in {"idle", "notify"}
              /\ UNCHANGED <<out, delivered>>
        /\ (ClosedEmpty(obj) /\ call[t].obj = obj /\ pc[t] = "notify" /\ pc'[t] = "idle")
              => UNCHANGED status]_vars

\* The single-slot channel was closed with nothing ever written, and a read
\* has returned closed without touching the caller's variable.
C9_Witness ==
    /\ target = "channel"
    /\ channel_state = "closed"
    /\ written["channel"] = <<>>
    /\ channel_value = 0
    /\ \E t \in Threads : pc[t] = "idle" /\ status[t] = "closed" /\ out[t] = 0

\* C10: buffered channel. close() leaves the ring, count and the cursors as
\* they are; on the closed channel count never grows and nothing more is
\* written, each read while count > 0 returns success with the oldest pending
\* value and lowers count by one, and each read at count = 0 returns closed:
\* the k values pending at close() are the next k values read, in order, and
\* every later read returns closed.
C10_CloseKeepsPending ==
    [][\A t \in Threads :
        /\ (pc[t] = "body" /\ call[t].obj = "buffered_channel" /\ call[t].fn = "close"
              /\ pc'[t] # "body") =>
              /\ ~buffered_open'
              /\ UNCHANGED <<buffered_values, buffered_count, buffered_read_position,
                             buffered_write_position>>
              /\ Pending' = Pending
        /\ (~buffered_open) =>
              /\ buffered_count' <= buffered_count
              /\ UNCHANGED <<written, buffered_values, buffered_open>>
        /\ (~buffered_open /\ ReadsNow(t, "buffered_channel")) =>
              IF buffered_count > 0
              THEN /\ status'[t] = "success"
                   /\ out'[t] = Pending[1]
                   /\ Pending' = Tail(Pending)
                   /\ delivered'["buffered_channel"] =
                         Append(delivered["buffered_channel"], Pending[1])
              ELSE /\ status'[t] = "closed"
                   /\ UNCHANGED <<out, delivered, bufVars>>]_vars

\* The producer has closed a full channel of capacity 2 (it is still inside
\* close(), about to notify), nothing has been read yet, and the consumer owns
\* the mutex, about to read the first of the two pending values.
C10_Witness ==
    /\ target = "buffered_channel"
    /\ ~buffered_open
    /\ Pending = <<1, 2>>
    /\ delivered["buffered_channel"] = <<>>
    /\ pc[Producer] = "notify"
    /\ call[Producer].fn = "close"
    /\ pc[2] = "body"
    /\ call[2].fn = "read"

\* Thread t is inside a wait: blocked, or re-acquiring the mutex.
Waiting(t) == pc[t] \in {"blocked", "woken", "expired"}

\* C11: a timed read or write that returns timeout was waiting with its
\* predicate false; neither the step that returns timeout nor any earlier step
\* of the call (blocking, waking, expiring, blocking again) changes the state,
\* the slot, the ring, count, the cursors, the open flag, the caller's output
\* variable or the mutex, and none wakes another thread; the thread is left
\* outside every member function, so a retry starts from the state the call
\* found, apart from what other threads did meanwhile.
C11_TimeoutFrame ==
    [][\A t \in Threads :
        /\ (status'[t] = "timeout" /\ status[t] # "timeout") =>
              /\ call[t].fn \in TimedFns
              /\ pc[t] = "expired"
              /\ ~stop_waiting(call[t].obj, call[t].fn)
              /\ pc'[t] = "idle"
              /\ call'[t] = NoCall
              /\ nq'[t] = <<>>
              /\ \A u \in Threads \ {t} : pc'[u] = pc[u]
              /\ UNCHANGED <<chanVars, bufVars, logVars, out, mutex>>
        /\ (call'[t].fn \in TimedFns /\ pc'[t] # pc[t] /\ Waiting(t)') =>
              UNCHANGED <<chanVars, bufVars, logVars, out, mutex>>]_vars

\* A timed write has timed out on the full single-slot channel, which still
\* holds the value written before, unread; the thread has no call in progress.
C11_Witness ==
    /\ target = "channel"
    /\ channel_state = "readable"
    /\ written["channel"] = <<channel_value>>
    /\ delivered["channel"] = <<>>
    /\ \E t \in Threads :
          /\ pc[t] = "idle"
          /\ status[t] = "timeout"
          /\ call[t] = NoCall
          /\ out[t] = 0

\* C12: a write or timed write of either object raises illegal write only
\* from write_channel, owning the mutex, on a closed object; in that step no
\* field of the object changes (state and slot; ring, count, cursors and open
\* flag), nothing is logged as written, no other thread is woken or moved, no
\* notification is left to issue, and the mutex is free afterwards.
C12_IllegalWriteFrame ==
    [][\A t \in Threads :
        (call[t].fn \in WriteFns /\ status'[t] = "illegal_write") =>
            /\ pc[t] = "body"
            /\ mutex[call[t].obj] = t
            /\ Closed(call[t].obj)
            /\ UNCHANGED <<chanVars, bufVars, logVars, out>>
            /\ \A u \in Threads \ {t} : pc'[u] = pc[u] /\ status'[u] = status[u]
            /\ pc'[t] = "idle"
            /\ nq'[t] = <<>>
            /\ mutex'[call[t].obj] = 0]_vars

\* A write has raised illegal write on the single-slot channel closed with a
\* value pending; the value is still there and the mutex is free.
C12_Witness ==
    /\ target = "channel"
    /\ channel_state = "closing"
    /\ channel_value = Last(written["channel"])
    /\ mutex["channel"] = 0
    /\ \E t \in Threads : pc[t] = "idle" /\ status[t] = "illegal_write"

\* Thread t, owning the mutex inside a member function in fns, takes the
\* single-slot channel from state `from` to state `to` in this step.
Moves(t, fns, from, to) ==
    /\ pc[t] = "body"
    /\ call[t].obj = "channel"
    /\ call[t].fn \in fns
    /\ channel_state = from
    /\ channel_state' = to

\* C13: single-slot channel, any threads calling read, write, the timed
\* variants and close in any interleaving: the channel starts writable, and
\* every step that changes the state is writable->readable by a write,
\* readable->writable by a read, writable->closed or readable->closing by
\* close, or closing->closed by a read; from closed the state never changes.
C13_Transitions ==
    /\ channel_state = "writable"
    /\ [][channel_state' # channel_state =>
            \E t \in Threads :
               \/ Moves(t, WriteFns, "writable", "readable")
               \/ Moves(t, ReadFns, "readable", "writable")
               \/ Moves(t, {"close"}, "writable", "closed")
               \/ Moves(t, {"close"}, "readable", "closing")
               \/ Moves(t, ReadFns, "closing", "closed")]_vars
    /\ [][channel_state = "closed" => channel_state' = "closed"]_vars

\* The channel has gone writable, readable, closing, closed: the close() that
\* found the written value has returned, and the read that took the value is
\* about to issue the notify_all only the closing->closed branch issues.
C13_Witness ==
    /\ target = "channel"
    /\ channel_state = "closed"
    /\ delivered["channel"] = written["channel"]
    /\ Len(written["channel"]) = 1
    /\ \E c, t \in Threads :
          /\ pc[c] = "idle"
          /\ status[c] = "void"
          /\ pc[t] = "notify"
          /\ call[t].fn \in ReadFns
          /\ nq[t] = <<notify_all("_readable")>>

\* C14: buffered channel of capacity N, any threads making any calls, timed
\* ones and close included: 0 <= count <= N in every reachable state; count
\* changes by one at a time, falls only from a value above 0 (the unsigned
\* counter never wraps) and rises only from a value below N.
C14_CountBound ==
    /\ [](buffered_count \in 0..Len(buffered_values))
    /\ [][buffered_count' # buffered_count =>
            \/ (buffered_count > 0 /\ buffered_count' = buffered_count - 1)
            \/ (buffered_count < Len(buffered_values)
                  /\ buffered_count' = buffered_count + 1)]_vars

\* Capacity 2 and two values stored: a timed write has timed out on the full
\* channel and another writer is blocked on it, count still 2.
C14_Witness ==
    /\ target = "buffered_channel"
    /\ Len(buffered_values) = 2
    /\ buffered_count = 2
    /\ buffered_open
    /\ \E t, u \in Threads :
          /\ pc[t] = "idle"
          /\ status[t] = "timeout"
          /\ pc[u] = "blocked"
          /\ call[u].fn \in WriteFns

\* C15: buffered channel: once open is false it stays false and count never
\* rises; once open is false and count is 0 both stay so in every later
\* state, and no read that runs read_channel then returns success.
C15_Drained ==
    [][/\ (~buffered_open) => (~buffered_open' /\ buffered_count' <= buffered_count)
       /\ ClosedEmpty("buffered_channel") => ClosedEmpty("buffered_channel")'
       /\ \A t \in Threads :
             (ClosedEmpty("buffered_channel") /\ ReadsNow(t, "buffered_channel"))
                => status'[t] # "success"]_vars

\* The channel was closed and the value that had been written has been read
\* by one thread; a read of another thread has then returned closed.
C15_Witness ==
    /\ target = "buffered_channel"
    /\ ~buffered_open
    /\ buffered_count = 0
    /\ Len(delivered["buffered_channel"]) = 1
    /\ \E c, t, u \in Threads :
          /\ pc[c] = "idle" /\ status[c] = "void"
          /\ pc[t] = "idle" /\ status[t] = "closed"
          /\ pc[u] = "idle" /\ status[u] = "success"
          /\ out[u] = delivered["buffered_channel"][1]

\* Thread t runs the locked part of close() of object obj in this step.
ClosesNow(t, obj) ==
    /\ pc[t] = "body"
    /\ call[t].obj = obj
    /\ call[t].fn = "close"
    /\ pc'[t] # "body"

\* C16: close() on either object never raises and leaves the object closed;
\* on an object already closed (single-slot: closing or closed; buffered:
\* open false) it changes no field, so a second close() leaves the state the
\* first one left; a value pending then is still what the next read returns.
C16_CloseIdempotent ==
    [][\A t \in Threads : \A obj \in Objects :
        /\ ClosesNow(t, obj) =>
              /\ status'[t] = "void"
              /\ Closed(obj)'
              /\ UNCHANGED <<logVars, out>>
              /\ Closed(obj) => UNCHANGED <<chanVars, bufVars>>
        /\ (ReadsNow(t, "channel") /\ obj = "channel" /\ channel_state = "closing") =>
              (status'[t] = "success" /\ out'[t] = channel_value)
        /\ (ReadsNow(t, "buffered_channel") /\ obj = "buffered_channel"
              /\ ~buffered_open /\ buffered_count > 0) =>
              (status'[t] = "success" /\ out'[t] = Pending[1])]_vars

\* Two close() calls have returned on the single-slot channel that held a
\* value at the first: the state is still closing, the value is still in the
\* slot, and a third thread owns the mutex, about to read it.
C16_Witness ==
    /\ target = "channel"
    /\ channel_state = "closing"
    /\ written["channel"] = <<channel_value>>
    /\ delivered["channel"] = <<>>
    /\ \E c, d, t \in Threads :
          /\ c # d
          /\ pc[c] = "idle" /\ status[c] = "void"
          /\ pc[d] = "idle" /\ status[d] = "void"
          /\ pc[t] = "body" /\ call[t].fn \in ReadFns

\* The results member function fn can end with.
Outcomes(fn) ==
    CASE fn = "read" -> {"success", "closed"}
      [] fn = "read_for" -> {"success", "closed", "timeout"}
      [] fn = "write" -> {"success", "illegal_write"}
      [] fn = "write_for" -> {"success", "timeout", "illegal_write"}
      [] fn = "close" -> {"void"}
      [] OTHER -> {}

\* C17: on both objects an untimed read ends only with success or closed
\* (the illegal write branch of the single-slot read_channel is never taken),
\* an untimed write only with success or by raising illegal write, timeout
\* comes only from the timed variants, and no write ends with closed.
C17_Outcomes ==
    [][\A t \in Threads :
        (status'[t] # status[t] /\ status'[t] # "none") =>
            status'[t] \in Outcomes(call[t].fn)]_vars

\* The three results besides success have all occurred: a timed call timed
\* out, a read returned closed and a write raised illegal write.
C17_Witness ==
    \E a, b, c \in Threads :
       /\ pc[a] = "idle" /\ status[a] = "timeout"
       /\ pc[b] = "idle" /\ status[b] = "closed"
       /\ pc[c] = "idle" /\ status[c] = "illegal_write"

\* The threads between acquiring the mutex of obj and releasing it.
Owners(obj) == {t \in Threads : pc[t] = "body" /\ call[t].obj = obj}

\* C18: both objects. At most one thread at a time is between acquiring an
\* object's mutex and releasing it, and it is the owner the mutex records;
\* every step that changes the state or the slot, the ring, count, a cursor or
\* the open flag, or a caller's output variable, is taken by the thread that
\* owns the object's mutex; a thread that has unlocked and is issuing its
\* notifications changes none of them.
C18_MutualExclusion ==
    /\ [](\A obj \in Objects :
            /\ Cardinality(Owners(obj)) <= 1
            /\ \A t \in Threads : (t \in Owners(obj)) <=> (mutex[obj] = t))
    /\ [][/\ (chanVars' # chanVars) =>
                \E t \in Owners("channel") : mutex["channel"] = t /\ pc'[t] # "body"
          /\ (bufVars' # bufVars) =>
                \E t \in Owners("buffered_channel") :
                   mutex["buffered_channel"] = t /\ pc'[t] # "body"
          /\ \A t \in Threads :
                /\ (out'[t] # out[t]) => (pc[t] = "body" /\ mutex[call[t].obj] = t)
                /\ (pc[t] = "notify" /\ nq'[t] # nq[t]) =>
                      UNCHANGED <<chanVars, bufVars, logVars, out, mutex>>]_vars

\* Contention on the single-slot channel: one thread owns the mutex, a second
\* has been woken and must wait for it, a third has unlocked and still has
\* its notification to issue.
C18_Witness ==
    /\ target = "channel"
    /\ \E t, u, v \in Threads :
          /\ pc[t] = "body" /\ mutex["channel"] = t
          /\ pc[u] = "woken"
          /\ pc[v] = "notify"

\* What read() does for thread t in the current state of obj: the result,
\* the caller's variable and the fields of the object afterwards.
ReadEffect(t, obj) ==
    IF obj = "channel"
    THEN IF channel_state \in {"readable", "closing"}
         THEN /\ status'[t] = "success"
              /\ out'[t] = channel_value
              /\ channel_state' = (IF channel_state = "readable" THEN "writable"
                                   ELSE "closed")
              /\ channel_value' = channel_value
         ELSE /\ status'[t] = "closed"
              /\ UNCHANGED <<chanVars, out>>
    ELSE IF (~buffered_open) /\ buffered_count = 0
         THEN /\ status'[t] = "closed"
              /\ UNCHANGED <<bufVars, out>>
         ELSE /\ status'[t] = "success"
              /\ out'[t] = Pending[1]
              /\ buffered_count' = buffered_count - 1
              /\ buffered_read_position' =
                    (buffered_read_position + 1) % Len(buffered_values)
              /\ UNCHANGED <<buffered_values, buffered_write_position, buffered_open>>

\* What write(arg) does for thread t in the current state of obj.
WriteEffect(t, obj) ==
    IF Closed(obj)
    THEN /\ status'[t] = "illegal_write"
         /\ UNCHANGED <<chanVars, bufVars>>
    ELSE /\ status'[t] = "success"
         /\ IF obj = "channel"
            THEN /\ channel_value' = call[t].arg
                 /\ channel_state' = "readable"
            ELSE /\ Pending' = Append(Pending, call[t].arg)
                 /\ buffered_count' = buffered_count + 1
                 /\ UNCHANGED <<buffered_read_position, buffered_open>>
         /\ UNCHANGED out

\* C19: a timed read or write blocks exactly when the untimed one would (its
\* predicate is false); whenever it evaluates its predicate true, after a
\* wake-up or at expiry, it goes on to read_channel / write_channel and does
\* not return timeout; and read_channel / write_channel then give a result
\* and an effect on the object that depend on the object's state and the
\* kind of operation only, the same for the timed and the untimed call.
C19_TimedAsUntimed ==
    [][\A t \in Threads :
        /\ Enters(t, ReadFns \cup WriteFns) =>
              (pc'[t] = "body") = stop_waiting(call'[t].obj, call'[t].fn)
        /\ (pc[t] \in {"woken", "expired"} /\ pc'[t] # pc[t]
              /\ stop_waiting(call[t].obj, call[t].fn)) => pc'[t] = "body"
        /\ \A obj \in Objects :
              /\ ReadsNow(t, obj) => ReadEffect(t, obj)
              /\ WritesNow(t, obj) => WriteEffect(t, obj)]_vars

\* Both timed operations have gone through on the buffered channel: a
\* write_for has stored its value and a read_for has returned it, each still
\* about to issue its notification.
C19_Witness ==
    /\ target = "buffered_channel"
    /\ \E t, u \in Threads :
          /\ pc[t] = "notify" /\ call[t].fn = "write_for" /\ status[t] = "success"
          /\ pc[u] = "notify" /\ call[u].fn = "read_for" /\ status[u] = "success"
          /\ out[u] = call[t].arg

\* C20: constructing a buffered channel with capacity 0 ends with the
\* invalid_size error and no object: no member function is ever entered and
\* no field is ever set; with capacity N >= 1 the construction raises nothing
\* and gives an open channel of N cells with count 0 and both cursors at 0,
\* which keeps its N cells.
C20_Construction ==
    /\ [][\A t \in Threads :
            (target = "none" /\ (target' = "buffered_channel" \/ status'[t] # status[t])) =>
               IF size = 0
               THEN /\ status'[t] = "invalid_size"
                    /\ target' = "none"
                    /\ UNCHANGED <<bufVars, pc, call, mutex>>
               ELSE /\ target' = "buffered_channel"
                    /\ UNCHANGED status
                    /\ Len(buffered_values') = size
                    /\ buffered_open'
                    /\ buffered_count' = 0
                    /\ buffered_read_position' = 0
                    /\ buffered_write_position' = 0]_vars
    /\ []((\E t \in Threads : status[t] = "invalid_size") =>
             /\ size = 0
             /\ target = "none"
             /\ ncalls = 0
             /\ \A t \in Threads : pc[t] = "idle" /\ call[t] = NoCall)
    /\ [](target = "buffered_channel" => (size >= 1 /\ Len(buffered_values) = size))

\* The construction with capacity 0 has raised invalid_size.
C20_Witness ==
    /\ size = 0
    /\ target = "none"
    /\ status[Producer] = "invalid_size"

\* The values in sequence q.
Range(q) == {q[i] : i \in 1..Len(q)}

\* Thread t is inside a write of obj that has not run write_channel yet.
WriterIn(t, obj) ==
    /\ call[t].obj = obj
    /\ call[t].fn \in WriteFns
    /\ pc[t] \in {"blocked", "woken", "expired", "body"}

\* C21: both objects. A write that has not yet run write_channel when the
\* object is closed (it was blocked on the occupied slot or the full ring, or
\* is re-acquiring the mutex) has stored nothing; it is woken, leaves its wait
\* only into write_channel, and raises illegal write there without storing,
\* also when a read has meanwhile freed the slot or a cell: its value is not
\* in the slot or ring and no read returns it.
C21_BlockedWriterClosed ==
    /\ [](\A t \in Threads : \A obj \in Objects :
            (WriterIn(t, obj) /\ Closed(obj)) =>
               /\ call[t].arg \notin Range(written[obj])
               /\ call[t].arg \notin Range(delivered[obj])
               /\ \A u \in Threads : out[u] # call[t].arg)
    /\ [][\A t \in Threads : \A obj \in Objects :
            (WriterIn(t, obj) /\ Closed(obj) /\ pc'[t] # pc[t]) =>
               /\ UNCHANGED <<chanVars, bufVars, logVars, out>>
               /\ IF pc[t] = "body"
                  THEN pc'[t] = "idle" /\ status'[t] = "illegal_write"
                  ELSE pc'[t] \in {"woken", "expired", "body"} /\ status'[t] = "none"]_vars
    /\ \A t \in Threads :
          (WriterIn(t, target) /\ Closed(target))
             ~> (pc[t] = "idle" /\ status[t] = "illegal_write")

\* A writer found the single slot occupied; the channel was then closed and a
\* reader has taken the pending value, so the slot is free again and the
\* channel closed, while the writer, woken, has yet to re-acquire the mutex.
C21_Witness ==
    /\ target = "channel"
    /\ channel_state = "closed"
    /\ Len(written["channel"]) = 1
    /\ delivered["channel"] = written["channel"]
    /\ \E t \in Threads :
          /\ pc[t] = "woken"
          /\ call[t].fn = "write"
          /\ call[t].arg \notin Range(written["channel"])

\* Thread t is inside a read of the single-slot channel.
ReaderInChannel(t) ==
    /\ pc[t] # "idle"
    /\ call[t].obj = "channel"
    /\ call[t].fn \in ReadFns

\* C22: single-slot channel in state closing, any number of readers blocked,
\* woken or arriving: the one read that runs read_channel there returns
\* success with the pending value, moves the state to closed and issues
\* notify_all on _readable; every read that runs read_channel after it
\* returns closed and leaves the caller's variable alone, so the value is
\* handed out once; and every reader inside a call on the closing or closed
\* channel returns: none stays blocked.
C22_ClosingReaders ==
    /\ [](channel_state \in {"closing", "closed"} =>
            /\ Len(written["channel"]) - Len(delivered["channel"])
                  = (IF channel_state = "closing" THEN 1 ELSE 0)
            /\ \A i, j \in 1..Len(delivered["channel"]) :
                  (i # j) => delivered["channel"][i] # delivered["channel"][j])
    /\ [][\A t \in Threads :
            /\ (ReadsNow(t, "channel") /\ channel_state = "closing") =>
                  /\ status'[t] = "success"
                  /\ out'[t] = channel_value
                  /\ channel_state' = "closed"
                  /\ nq'[t] = <<notify_all("_readable")>>
                  /\ delivered'["channel"] = Append(delivered["channel"], channel_value)
            /\ (ReadsNow(t, "channel") /\ channel_state = "closed") =>
                  /\ status'[t] = "closed"
                  /\ out'[t] = out[t]
                  /\ UNCHANGED <<chanVars, delivered>>]_vars
    /\ \A t \in Threads :
          (ReaderInChannel(t) /\ channel_state \in {"closing", "closed"})
             ~> (pc[t] = "idle" /\ status[t] \in {"success", "closed"})

\* One reader has taken the pending value of the closing channel and is about
\* to issue its notify_all, while a second reader, woken by close(), has yet
\* to re-acquire the mutex.
C22_Witness ==
    /\ target = "channel"
    /\ channel_state = "closed"
    /\ \E t, u \in Threads :
          /\ pc[t] = "notify"
          /\ call[t].fn \in ReadFns
          /\ status[t] = "success"
          /\ nq[t] = <<notify_all("_readable")>>
          /\ out[t] = Last(written["channel"])
          /\ pc[u] = "woken"
          /\ call[u].fn \in ReadFns

\* The condition the timed call of thread t waits for does not hold:
\* a timed read on the writable single slot or on the open, empty ring; a
\* timed write on the readable single slot or on the open, full ring.
NotReady(t) ==
    IF call[t].obj = "channel"
    THEN channel_state = (IF call[t].fn \in ReadFns THEN "writable" ELSE "readable")
    ELSE /\ buffered_open
         /\ buffered_count = (IF call[t].fn \in ReadFns THEN 0 ELSE Len(buffered_values))

\* C23: when a timed wait has expired, the call re-acquires the mutex and
\* either returns timeout, exactly when the object is still not readable (for
\* a read) or not writable (for a write), changing nothing, or goes on to
\* read_channel / write_channel with no result yet; the expiry itself raises
\* nothing, and timeout is returned in no other way.
C23_Expiry ==
    [][\A t \in Threads :
        /\ (pc[t] = "expired" /\ pc'[t] # "expired") =>
              IF NotReady(t)
              THEN /\ pc'[t] = "idle"
                   /\ status'[t] = "timeout"
                   /\ UNCHANGED <<chanVars, bufVars, logVars, out>>
              ELSE /\ pc'[t] = "body"
                   /\ status'[t] = "none"
                   /\ call'[t] = call[t]
                   /\ mutex'[call[t].obj] = t
        /\ (status'[t] = "timeout" /\ status[t] # "timeout") =>
              (pc[t] = "expired" /\ NotReady(t))]_vars

\* On the single-slot channel one timed read has returned timeout, and the
\* timed wait of another has expired after a value was written: that one
\* will find the channel readable when it re-acquires the mutex.
C23_Witness ==
    /\ target = "channel"
    /\ channel_state = "readable"
    /\ mutex["channel"] = 0
    /\ \E t, u \in Threads :
          /\ pc[t] = "idle" /\ status[t] = "timeout"
          /\ pc[u] = "expired" /\ call[u].fn = "read_for"

\* Completed writes minus successful reads of the single-slot channel.
Unread == Len(written["channel"]) - Len(delivered["channel"])

\* C24: single-slot channel, any number of writers and readers: completed
\* writes minus successful reads is 0 or 1 in every state, and 1 exactly when
\* the state is readable or closing, when the slot holds the one unread
\* value; a write stores only when every value written before has been read.
C24_OnePending ==
    /\ [](/\ Unread \in {0, 1}
          /\ (Unread = 1) <=> (channel_state \in {"readable", "closing"})
          /\ (Unread = 1) => channel_value = Last(written["channel"]))
    /\ [][(written'["channel"] # written["channel"]) =>
            /\ Unread = 0
            /\ channel_state = "writable"
            /\ Len(written'["channel"]) = Len(written["channel"]) + 1]_vars

\* Two writers and a reader: the first value has been read, the second is in
\* the slot, and a writer waits with the third.
C24_Witness ==
    /\ target = "channel"
    /\ channel_state = "readable"
    /\ Len(written["channel"]) = 2
    /\ Len(delivered["channel"]) = 1
    /\ \E t \in Threads :
          /\ pc[t] = "blocked"
          /\ call[t].fn \in WriteFns

\* C25: single-slot channel, any readers, writers and closers: a read or
\* timed read owns the mutex after its wait only in state readable, closing
\* or closed, so read_channel never takes the branch that throws for state
\* writable, and no read ends with an error.
C25_ReadNeverThrows ==
    /\ [](\A t \in Threads :
            (pc[t] = "body" /\ call[t].obj = "channel" /\ call[t].fn \in ReadFns)
               => channel_state \in {"readable", "closing", "closed"})
    /\ [][\A t \in Threads :
            (call[t].obj = "channel" /\ call[t].fn \in ReadFns /\ status'[t] # status[t])
               => status'[t] \in {"success", "closed", "timeout"}]_vars

\* Two readers race for one written value: one owns the mutex and is about to
\* run read_channel on the readable channel, the other has been woken and
\* will find the channel writable when its turn comes.
C25_Witness ==
    /\ target = "channel"
    /\ channel_state = "readable"
    /\ \E t, u \in Threads :
          /\ pc[t] = "body" /\ call[t].fn \in ReadFns
          /\ pc[u] = "woken" /\ call[u].fn \in ReadFns

\* A value is pending on the object under test.
ValuePending ==
    IF target = "channel" THEN channel_state \in {"readable", "closing"}
    ELSE buffered_count > 0

\* The object under test is open and can take a value.
FreeCapacity ==
    IF target = "channel" THEN channel_state = "writable"
    ELSE buffered_open /\ buffered_count < Len(buffered_values)

\* Some thread is blocked in the untimed member function fn.
BlockedIn(fn) == \E t \in Threads : pc[t] = "blocked" /\ call[t].fn = fn

\* Thread t sleeps in a wait although its predicate is true.
Asleep(t) == pc[t] = "blocked" /\ stop_waiting(call[t].obj, call[t].fn)

\* No thread is on its way: each is outside the member functions or blocked,
\* and no notification is left to issue.
Quiescent == \A t \in Threads : pc[t] \in {"idle", "blocked"}

\* With n values read, a blocked read() and a value pending, n + 1 writes,
\* n reads and the blocked read have been called.
ReadsBefore == 0..((MaxCalls - 2) \div 2)

\* With n values written and a write() blocked although the object has room,
\* n writes, the blocked write and a read have been called.
WritesBefore == 1..(MaxCalls - 2)

\* No state in which nothing is on its way has a thread blocked with its
\* predicate true, and a thread blocked with its predicate true does not stay
\* so.
NoSleeper ==
    /\ [](Quiescent => \A t \in Threads : ~Asleep(t))
    /\ (\E t \in Threads : Asleep(t)) ~> (\A t \in Threads : ~Asleep(t))

\* While a thread is blocked in read() and a value is pending, some read
\* eventually consumes a value.
ReadWakes ==
    \A n \in ReadsBefore :
       (BlockedIn("read") /\ ValuePending /\ Len(delivered[target]) = n)
          ~> (Len(delivered[target]) > n)

\* The statement without the close: while a thread is blocked in write() and
\* the object is open and not full, some write eventually completes, whatever
\* the other threads call.
C26_Original ==
    /\ NoSleeper
    /\ ReadWakes
    /\ \A n \in WritesBefore :
          (BlockedIn("write") /\ FreeCapacity /\ Len(written[target]) = n)
             ~> (Len(written[target]) > n)

\* C26: both objects, every thread inside a call scheduled again and again,
\* notifications issued after the unlock, notify_one waking one waiter. No
\* waiter sleeps on with its predicate true; while a thread is blocked in
\* read() and a value is pending, some read eventually consumes a value; while
\* a thread is blocked in write() and the object is open and not full,
\* eventually some write completes or the object is closed.
C26_NoLostWakeup ==
    /\ NoSleeper
    /\ ReadWakes
    /\ \A n \in WritesBefore :
          (BlockedIn("write") /\ FreeCapacity /\ Len(written[target]) = n)
             ~> (Len(written[target]) > n \/ Closed(target))

\* A reader blocked on the empty single-slot channel is still asleep although
\* a value has been written: the writer has unlocked and has yet to issue the
\* notify_one that wakes it.
C26_Witness ==
    /\ target = "channel"
    /\ channel_state = "readable"
    /\ \E t, u \in Threads :
          /\ Asleep(t) /\ call[t].fn = "read"
          /\ pc[u] = "notify" /\ call[u].fn \in WriteFns
          /\ nq[u] = <<notify_one("_readable")>>

\* The cells of the ring that hold an element not yet read.
UnreadCells ==
    {cell((buffered_read_position + i) % Len(buffered_values)) :
        i \in 0..(buffered_count - 1)}

\* This step is a write_channel of the buffered channel that stores a value.
Stores == Len(written'["buffered_channel"]) > Len(written["buffered_channel"])

\* This step is a read_channel of the buffered channel that returns a cell.
Takes == Len(delivered'["buffered_channel"]) > Len(delivered["buffered_channel"])

\* C27: buffered channel of capacity N, any calls from any threads: in every
\* state both cursors are below N and the write cursor is the read cursor
\* plus count, modulo N, and the unread cells hold, oldest first, the values
\* written and not yet read; a write stores into a cell that holds no unread
\* element and changes no unread cell, and a read returns the cell of the
\* oldest unread element.
C27_RingCursors ==
    /\ [](/\ buffered_read_position < Len(buffered_values)
          /\ buffered_write_position < Len(buffered_values)
          /\ buffered_write_position =
                (buffered_read_position + buffered_count) % Len(buffered_values)
          /\ Pending = SubSeq(written["buffered_channel"],
                              Len(delivered["buffered_channel"]) + 1,
                              Len(written["buffered_channel"])))
    /\ [][/\ Stores =>
               /\ cell(buffered_write_position) \notin UnreadCells
               /\ \A c \in UnreadCells : buffered_values'[c] = buffered_values[c]
               /\ buffered_values'[cell(buffered_write_position)] =
                     Last(written'["buffered_channel"])
          /\ Takes =>
               /\ cell(buffered_read_position) \in UnreadCells
               /\ Last(delivered'["buffered_channel"]) =
                     buffered_values[cell(buffered_read_position)]
               /\ Last(delivered'["buffered_channel"]) =
                     written["buffered_channel"][Len(delivered'["buffered_channel"])]
       ]_vars

\* A ring of two cells whose cursors have both wrapped to cell 1 with the ring
\* full: two values were written, the first, 1, was read and a third was
\* stored into the cell it left.
C27_Witness ==
    /\ target = "buffered_channel"
    /\ Len(buffered_values) = 2
    /\ buffered_read_position = 1
    /\ buffered_write_position = 1
    /\ buffered_count = 2
    /\ delivered["buffered_channel"] = <<1>>
    /\ Len(written["buffered_channel"]) = 3
    /\ buffered_values[1] = Last(written["buffered_channel"])

\* The tasks the workers have obtained are the first tasks submitted, each
\* once; the submitter's calls return normally and a worker's read returns
\* success or closed, closed only when every task has been obtained.
C28_Safe ==
    /\ status[Producer] \in {"none", "success", "void"}
    /\ \A t \in Consumers : status[t] \in {"none", "success", "closed"}
    /\ delivered["buffered_channel"] = Upto(Len(delivered["buffered_channel"]))
    /\ Len(delivered["buffered_channel"]) <= Len(written["buffered_channel"])
    /\ written["buffered_channel"] = Upto(Len(written["buffered_channel"]))
    /\ Len(written["buffered_channel"]) <= items
    /\ \A t, u \in Consumers : (t # u /\ out[t] # 0) => out[t] # out[u]
    /\ \A t \in Consumers :
          (status[t] = "closed") =>
             /\ ~buffered_open
             /\ delivered["buffered_channel"] = Upto(items)

\* A worker's successful read hands it the next task, which no worker has had.
C28_Obtains ==
    \A t \in Consumers :
       (ReadsNow(t, "buffered_channel") /\ status'[t] = "success") =>
          /\ out'[t] = Len(delivered["buffered_channel"]) + 1
          /\ delivered'["buffered_channel"] =
                Append(delivered["buffered_channel"], out'[t])
          /\ \A u \in Consumers \ {t} : out'[u] = out[u] /\ out[u] # out'[t]

\* shutdown() has returned from its joins: the submitter has closed and every
\* worker has left its loop on closed, with every task obtained.
C28_Joined ==
    /\ pc[Producer] = "idle"
    /\ status[Producer] = "void"
    /\ \A t \in Consumers : pc[t] = "idle" /\ status[t] = "closed"
    /\ delivered["buffered_channel"] = Upto(items)

\* C28: buffered channel of capacity 1..MaxSize used as a work queue, one
\* submitter writing T tasks (0..MaxItems) and then closing, W workers
\* (1..NumThreads - 1) each reading until a read is not success: every task
\* is obtained by exactly one worker, in submission order; once the queue is
\* closed every worker gets closed and stops, so the joins complete and stay
\* completed.
C28_WorkQueue ==
    /\ []((target = "buffered_channel") => C28_Safe)
    /\ [][(target = "buffered_channel") => C28_Obtains]_vars
    /\ (target = "buffered_channel" /\ ~buffered_open) ~> C28_Joined
    /\ <>[]((target = "buffered_channel") => C28_Joined)

\* Two workers on a queue of capacity 2 have shared MaxItems tasks, each has
\* obtained at least one, and both have stopped on closed.
C28_Witness ==
    /\ target = "buffered_channel"
    /\ workers = 2
    /\ items = MaxItems
    /\ Len(buffered_values) = 2
    /\ C28_Joined
    /\ out[2] # 0
    /\ out[3] # 0

\* No stage has raised an error or timed out, and what the last stage has
\* received so far is, in order, the first values the listener wrote.
C29_Safe ==
    /\ status[Listener] \in {"none", "success", "void"}
    /\ status[Reader] \in {"none", "success", "closed", "void"}
    /\ status[Writer] \in {"none", "success", "closed"}
    /\ written["channel"] = Upto(Len(written["channel"]))
    /\ Len(written["channel"]) <= items
    /\ delivered["buffered_channel"] =
          SubSeq(written["channel"], 1, Len(delivered["buffered_channel"]))
    /\ (pc[Writer] = "idle" /\ status[Writer] = "success") =>
          out[Writer] = Last(delivered["buffered_channel"])
    /\ (status[Writer] = "closed") =>
          delivered["buffered_channel"] = Upto(items)

\* The three threads have left their functions: both objects are closed and
\* the last stage has received every value.
C29_Terminated ==
    /\ \A t \in {Listener, Reader, Writer} : pc[t] = "idle"
    /\ status[Listener] = "void"
    /\ status[Reader] = "void"
    /\ status[Writer] = "closed"
    /\ channel_state = "closed"
    /\ ~buffered_open
    /\ written["channel"] = Upto(items)
    /\ delivered["buffered_channel"] = written["channel"]

\* C29: the pipeline of the echo server, 0..MaxItems values, response queue
\* of capacity 1..MaxSize, every interleaving of the three threads: no stage
\* raises, the last stage receives the values the listener wrote, in the
\* order it wrote them, and sees closed only after all of them, and the three
\* threads terminate.
C29_Pipeline == []C29_Safe /\ <>[]C29_Terminated

\* MaxItems values have passed through a response queue of capacity 1 and
\* all three threads are done.
C29_Witness ==
    /\ target = "pipeline"
    /\ items = MaxItems
    /\ Len(buffered_values) = 1
    /\ C29_Terminated
    /\ out[Writer] = MaxItems

====
